---- MODULE Spec2Model ----
(***************************************************************************)
(* Model of lipnet's central-path Adam optimizer (adam_barrier_t_impl),    *)
(* the log-barrier problem it drives (network_problem_log_barrier_t), the  *)
(* block factorization of chi (barrierfunction_t::chol and                 *)
(* barrierfunction_wot_t::chol) and the feasibility line-search            *)
(* (feasibilitycheck_t::compute).                                          *)
(*                                                                         *)
(* The numerical type T is modelled by exact rationals <<n, d>> (d > 0,    *)
(* lowest terms).  The network topology of the model is (1,1,...,1): every *)
(* block of chi is a scalar, so a layer weight is one rational, a          *)
(* T-parameter vector is one rational, and a Cholesky factor of a block is *)
(* the square root of one rational, kept as a surd c*sqrt(r).              *)
(***************************************************************************)
EXTENDS Integers, Sequences, FiniteSets, TLC

VARIABLES pc, param, feasibility_enabled, j, i, x, gradient, momentum, velocity, direction,
          fx, fxl, avglossdecrease, gamma, alpha, diff, threshold, dalpha,
          step, info, hist, ret, inp, out

vars == <<pc, param, feasibility_enabled, j, i, x, gradient, momentum, velocity, direction,
          fx, fxl, avglossdecrease, gamma, alpha, diff, threshold, dalpha,
          step, info, hist, ret, inp, out>>

(***************************************************************************)
(* Exact rational arithmetic standing for T (double).                      *)
(***************************************************************************)
Abs(n) == IF n < 0 THEN -n ELSE n

RECURSIVE GCD(_, _)
GCD(a, b) == IF b = 0 THEN a ELSE GCD(b, a % b)

Q(n, d) ==
    LET g == GCD(Abs(n), Abs(d))
        s == IF d < 0 THEN -1 ELSE 1
    IN  <<(s * n) \div g, (s * d) \div g>>

QInt(n) == <<n, 1>>
QAdd(a, b) ==
    LET g == GCD(a[2], b[2])
    IN  Q(a[1] * (b[2] \div g) + b[1] * (a[2] \div g), (a[2] \div g) * b[2])
QSub(a, b) == QAdd(a, <<-b[1], b[2]>>)
QMul(a, b) ==
    LET g1 == GCD(Abs(a[1]), b[2])
        g2 == GCD(Abs(b[1]), a[2])
    IN  IF a[1] = 0 \/ b[1] = 0 THEN <<0, 1>>
        ELSE <<(a[1] \div g1) * (b[1] \div g2), (a[2] \div g2) * (b[2] \div g1)>>
QDiv(a, b) ==
    QMul(a, IF b[1] < 0 THEN <<-b[2], -b[1]>> ELSE <<b[2], b[1]>>)
QNeg(a) == <<-a[1], a[2]>>
QAbs(a) == <<Abs(a[1]), a[2]>>
QLt(a, b) == QSub(a, b)[1] < 0
QLe(a, b) == QSub(a, b)[1] <= 0
QMax(a, b) == IF QLt(a, b) THEN b ELSE a
QZero == QInt(0)
QOne == QInt(1)

RECURSIVE QPow(_, _)
QPow(b, k) == IF k = 0 THEN QOne ELSE QMul(b, QPow(b, k - 1))

\* std::sqrt on the values the model reaches: squares of rationals
ISqrt(n) == CHOOSE r \in 0..n : r * r = n
QSqrt(a) == <<ISqrt(a[1]), ISqrt(a[2])>>

(***************************************************************************)
(* Bounds of the model and the hyper-parameters of the run.                *)
(***************************************************************************)
MaxIter == 2
CpSteps == 2

\* std::numeric_limits<T>::max(): above every objective the oracle returns
TMax == 1000000


\* adam_barrier_t_impl::parameter_t of the run
Params ==
    [max_iter |-> MaxIter, cpsteps |-> CpSteps,
     diff |-> Q(1, 2), threshold |-> Q(1, 2), window |-> 2,
     gamma |-> QInt(1), alpha |-> QInt(1),
     beta1 |-> QInt(0), beta2 |-> QInt(0), beta3 |-> QInt(2),
     alphadec |-> Q(1, 2), gammadec |-> Q(1, 2), eps |-> QInt(1)]

\* the mini-batch size and the number of mini-batches of the training set
BATCH == 2
NBatches == 3

\* barrierfunction_t::lipschitz, the bound Psi the problem is built with, and
\* training_data.idata.rows()
Problem == [lipschitz |-> QInt(5), rows |-> NBatches * BATCH]

\* variant of the mini-batch selection that ignores the counter
batch_index_first(iter, rows) == 0

\* size_t i = (info.iter++) % (training_data.idata.rows() / BATCH), iter
\* being the value of the counter before the increment
batch_index(iter, rows) == iter % (rows \div BATCH)

\* the rows i*BATCH + j, j < BATCH, that blaze::rows selects
batch_rows(ii) == {ii * BATCH + jj : jj \in 0..(BATCH - 1)}

(***************************************************************************)
(* liptrainweights_t for the topology (1,1,1): W holds the two layer       *)
(* weights, t the T-parameter of the hidden layer; the arithmetic is       *)
(* element-wise.                                                           *)
(***************************************************************************)
Var(w0, w1, t0) == [W |-> <<w0, w1>>, t |-> <<t0>>]

VMap1(Op(_), a) ==
    [W |-> [k \in DOMAIN a.W |-> Op(a.W[k])],
     t |-> [k \in DOMAIN a.t |-> Op(a.t[k])]]

VMap2(Op(_, _), a, b) ==
    [W |-> [k \in DOMAIN a.W |-> Op(a.W[k], b.W[k])],
     t |-> [k \in DOMAIN a.t |-> Op(a.t[k], b.t[k])]]

VZero == Var(QZero, QZero, QZero)
VScale(c, a) == LET S(e) == QMul(c, e) IN VMap1(S, a)
VShift(c, a) == LET S(e) == QAdd(c, e) IN VMap1(S, a)
VAdd(a, b) == VMap2(QAdd, a, b)
VSub(a, b) == VMap2(QSub, a, b)
VDiv(a, b) == VMap2(QDiv, a, b)
VSquare(a) == LET S(e) == QMul(e, e) IN VMap1(S, a)
VSqrt(a) == VMap1(QSqrt, a)

(***************************************************************************)
(* Block factors.  A factor block is c*sqrt(r), r > 0: for scalar blocks   *)
(* blaze::llh(X, D) gives D = sqrt(X) and throws when X is not positive    *)
(* definite.  Layer index I of the source is index I+1 of a sequence.      *)
(***************************************************************************)
Surd(c, r) == [c |-> c, r |-> r]
SRat(q) == Surd(q, QOne)
\* s * trans(s)
SSq(s) == QMul(s.c, QMul(s.c, s.r))
\* trans(solve(D, Z)) without the sign
SSolve(D, Z) == Surd(QDiv(Z, QMul(D.c, D.r)), D.r)

\* -trans(solve(D, Z)) for a rational Z
SNegSolve(D, Z) == Surd(QNeg(QDiv(Z, QMul(D.c, D.r))), D.r)

\* variant of the factorization test that accepts a singular block
llh_semidefinite(X) ==
    IF QLe(QZero, X) THEN [ok |-> TRUE, D |-> Surd(QOne, X)]
    ELSE [ok |-> FALSE, D |-> Surd(QZero, QOne)]

\* blaze::llh: the Cholesky factor of X, or the NotPositiveDefinite failure
llh(X) == IF QLt(QZero, X) THEN [ok |-> TRUE, D |-> Surd(QOne, X)]
          ELSE [ok |-> FALSE, D |-> Surd(QZero, QOne)]

NotPositiveDefinite == [ok |-> FALSE, D |-> <<>>, L |-> <<>>]

\* kondition = std::ratio<1,100> of barrierfunction_t::chol
ratio == Q(1, 100)

\* the for_range<1,LN> sweep of barrierfunction_t::chol, from layer I on
RECURSIVE chol_range(_, _, _, _)
chol_range(I, value, var, numeric_stability) ==
    LET LN == Len(var.W) - 1 IN
    IF ~value.ok \/ I >= LN THEN value
    ELSE LET X0 == QSub(QMul(QInt(2), var.t[I]), SSq(value.L[I]))
             X == IF numeric_stability THEN QAdd(X0, ratio) ELSE X0
             f == llh(X)
             Z == QMul(var.W[I + 1], var.t[I + 1])
         IN  IF ~f.ok THEN NotPositiveDefinite
             ELSE chol_range(I + 1,
                     [ok |-> TRUE, D |-> Append(value.D, f.D),
                      L |-> Append(value.L, SNegSolve(f.D, Z))],
                     var, numeric_stability)

\* variant of chol that leaves the last, output-layer block unstabilised
chol_t_last_plain(numeric_stability, lipschitz, var) ==
    LET LN == Len(var.W) - 1
        first == [ok |-> TRUE, D |-> <<SRat(lipschitz)>>,
                  L |-> <<SRat(QNeg(QDiv(QMul(var.t[1], var.W[1]), lipschitz)))>>]
        value == chol_range(1, first, var, numeric_stability)
    IN  IF ~value.ok THEN NotPositiveDefinite
        ELSE LET X10 == QSub(QMul(QInt(2), var.t[LN]), SSq(value.L[LN]))
                 X1 == IF numeric_stability THEN QAdd(X10, ratio) ELSE X10
                 f1 == llh(X1)
             IN  IF ~f1.ok THEN NotPositiveDefinite
                 ELSE LET LL == SNegSolve(f1.D, var.W[LN + 1])
                          X2 == QSub(QOne, SSq(LL))
                          f2 == llh(X2)
                      IN  IF ~f2.ok THEN NotPositiveDefinite
                          ELSE [ok |-> TRUE,
                                D |-> value.D \o <<f1.D, f2.D>>,
                                L |-> Append(value.L, LL)]

\* barrierfunction_t::chol<numeric_stability, kondition>(lipschitz, var)
chol_t(numeric_stability, lipschitz, var) ==
    LET LN == Len(var.W) - 1
        first == [ok |-> TRUE, D |-> <<SRat(lipschitz)>>,
                  L |-> <<SRat(QNeg(QDiv(QMul(var.t[1], var.W[1]), lipschitz)))>>]
        value == chol_range(1, first, var, numeric_stability)
    IN  IF ~value.ok THEN NotPositiveDefinite
        ELSE LET X10 == QSub(QMul(QInt(2), var.t[LN]), SSq(value.L[LN]))
                 X1 == IF numeric_stability THEN QAdd(X10, ratio) ELSE X10
                 f1 == llh(X1)
             IN  IF ~f1.ok THEN NotPositiveDefinite
                 ELSE LET LL == SNegSolve(f1.D, var.W[LN + 1])
                          X20 == IF numeric_stability THEN QAdd(QOne, ratio) ELSE QOne
                          X2 == QSub(X20, SSq(LL))
                          f2 == llh(X2)
                      IN  IF ~f2.ok THEN NotPositiveDefinite
                          ELSE [ok |-> TRUE,
                                D |-> value.D \o <<f1.D, f2.D>>,
                                L |-> Append(value.L, LL)]

\* the call made by barrierfunction_t::compute: chol(lipschitz, var)
chol(lipschitz, var) == chol_t(TRUE, lipschitz, var)

\* the for_range<1,LN> sweep of barrierfunction_wot_t::chol, from layer I on
RECURSIVE chol_wot_range(_, _, _, _)
chol_wot_range(I, value, weights, tparam) ==
    LET LN == Len(weights) - 1 IN
    IF ~value.ok \/ I >= LN THEN value
    ELSE LET X == QSub(QMul(QInt(2), tparam[I]), SSq(value.L[I]))
             f == llh(X)
             Z == QMul(weights[I + 1], tparam[I + 1])
         IN  IF ~f.ok THEN NotPositiveDefinite
             ELSE chol_wot_range(I + 1,
                     [ok |-> TRUE, D |-> Append(value.D, f.D),
                      L |-> Append(value.L, SNegSolve(f.D, Z))],
                     weights, tparam)

\* barrierfunction_wot_t::chol(lipschitz, weights, tparam)
chol_wot(lipschitz, weights, tparam) ==
    LET LN == Len(weights) - 1
        first == [ok |-> TRUE, D |-> <<SRat(lipschitz)>>,
                  L |-> <<SRat(QNeg(QDiv(QMul(tparam[1], weights[1]), lipschitz)))>>]
        value == chol_wot_range(1, first, weights, tparam)
    IN  IF ~value.ok THEN NotPositiveDefinite
        ELSE LET X1 == QSub(QMul(QInt(2), tparam[LN]), SSq(value.L[LN]))
                 f1 == llh(X1)
             IN  IF ~f1.ok THEN NotPositiveDefinite
                 ELSE LET LL == SNegSolve(f1.D, weights[LN + 1])
                          X2 == QSub(QOne, SSq(LL))
                          f2 == llh(X2)
                      IN  IF ~f2.ok THEN NotPositiveDefinite
                          ELSE [ok |-> TRUE,
                                D |-> value.D \o <<f1.D, f2.D>>,
                                L |-> Append(value.L, LL)]

(***************************************************************************)
(* The certificate matrix.  feasibilitycheck_t::compute assembles          *)
(* trans(B)*Z*A + trans(A)*Z*B + Q - 2*trans(B)*Z*B from the generators of *)
(* structure.hpp; chi is its negative.  For scalar blocks chi is           *)
(* tridiagonal: chi_diag(k) are its diagonal entries, chi_sub(k) the entry *)
(* linking block k and block k+1 (k counted from 0).                       *)
(***************************************************************************)
chi_diag(rho, W, t, k) ==
    IF k = 0 THEN rho
    ELSE IF k = Len(W) THEN QOne
    ELSE QMul(QInt(2), t[k])

chi_sub(rho, W, t, k) ==
    IF k = Len(W) - 1 THEN QNeg(W[k + 1])
    ELSE QNeg(QMul(t[k + 1], W[k + 1]))

(***************************************************************************)
(* feasibilitycheck_t::compute.  gges returns the generalized eigenvalue   *)
(* pairs (alpha, beta) of the 2n x 2n pencil (A, C).  The pencil is the    *)
(* linearization of chi(pos + lambda * gradient): lambda = alpha/beta is   *)
(* finite exactly when det chi(pos + lambda * gradient) = 0, every other   *)
(* pair has beta = 0.  For the topology (1,1,1) and a direction with no    *)
(* weight component, det chi = rho*(2*tau - w1^2) - w0^2 * tau^2 with      *)
(* tau = t + lambda * dt.                                                  *)
(***************************************************************************)
EigPair(re, im, b) == [re |-> re, im |-> im, b |-> b]
Infinite == EigPair(QOne, QZero, QZero)

gges(pos, grad, rho) ==
    LET w0 == pos.W[1]
        w1 == pos.W[2]
        t0 == pos.t[1]
        dt == grad.t[1]
        w00 == QMul(w0, w0)
        disc == QMul(rho, QSub(rho, QMul(w00, QMul(w1, w1))))
        lam(tau) == QDiv(QSub(tau, t0), dt)
    IN  IF dt = QZero THEN [k \in 1..6 |-> Infinite]
        ELSE IF w0 = QZero
        THEN <<EigPair(lam(QDiv(QMul(w1, w1), QInt(2))), QZero, QOne)>>
                \o [k \in 1..5 |-> Infinite]
        ELSE IF QLe(QZero, disc)
        THEN <<EigPair(lam(QDiv(QAdd(rho, QSqrt(disc)), w00)), QZero, QOne),
               EigPair(lam(QDiv(QSub(rho, QSqrt(disc)), w00)), QZero, QOne)>>
                \o [k \in 1..4 |-> Infinite]
        ELSE LET re == lam(QDiv(rho, w00))
                 im == QDiv(QSqrt(QNeg(disc)), QMul(w00, dt))
             IN  <<EigPair(re, im, QOne), EigPair(re, QNeg(im), QOne)>>
                    \o [k \in 1..4 |-> Infinite]

\* 1e-6, the tolerance of the eligibility test
Tol == Q(1, 1000000)

\* variant of the lambda whose fallback value is 0
rr_zero(pair) ==
    IF QLt(QAbs(pair.im), Tol) /\ QLt(Tol, QAbs(pair.b))
    THEN LET val == QDiv(pair.re, pair.b)
         IN  IF QLt(val, QZero) THEN val ELSE QZero
    ELSE QZero

\* the lambda mapped over (alpha, beta)
rr(pair) ==
    IF QLt(QAbs(pair.im), Tol) /\ QLt(Tol, QAbs(pair.b))
    THEN LET val == QDiv(pair.re, pair.b)
         IN  IF QLt(val, QZero) THEN val ELSE QNeg(QOne)
    ELSE QNeg(QOne)

RECURSIVE blaze_max(_)
blaze_max(v) ==
    IF Len(v) = 1 THEN v[1] ELSE QMax(v[1], blaze_max(Tail(v)))

\* std::abs(blaze::max(rr)) over the pairs gges returned
max_rr(pairs) == QAbs(blaze_max([k \in DOMAIN pairs |-> rr(pairs[k])]))

compute(pos, grad, rho) == max_rr(gges(pos, grad, rho))

(***************************************************************************)
(* The oracle network_problem_log_barrier_t::run.  The loss, its gradient  *)
(* and the barrier gradient depend on training data the model does not     *)
(* fix: the objective is drawn from Objectives and the combined gradient   *)
(* from Gradients.  What the model keeps of the call is its control flow:  *)
(* the mini-batch counter advances, the factorization of chi at the point  *)
(* either succeeds or throws, and the feasibility object is re-initialised *)
(* with the point and lipschitz^2.                                         *)
(***************************************************************************)
Objectives == {QInt(0), QInt(8), QInt(16)}
Gradients == {Var(QZero, QZero, QInt(-1)), Var(QZero, QZero, QInt(1))}
StartPositions ==
    {Var(QZero, QInt(1), QInt(1)), Var(QZero, QInt(1), Q(3, 4)),
     Var(QZero, QInt(1), QInt(2))}

\* barrierfunction_t::compute throws out of the oracle when chol fails
throws(var) == ~chol(Problem.lipschitz, var).ok

\* an init that leaves the stored point as it was
feasibility_init_stale(s, var) ==
    [s EXCEPT !.rho = QPow(Problem.lipschitz, 2)]

\* feasibility_t::init(lipschitz^2, var)
feasibility_init(s, var) ==
    [s EXCEPT !.pos = var, !.rho = QPow(Problem.lipschitz, 2)]

\* the exponent counted up instead of down
stage_threshold_rising(base, p, jj) == QMul(base, QPow(p.beta3, jj))

(***************************************************************************)
(* adam_barrier_t_impl::run, one action per step of its control flow.      *)
(***************************************************************************)
\* the stopping thresholds of stage j: base * beta3^(cpsteps - j)
stage_threshold(base, p, jj) == QMul(base, QPow(p.beta3, p.cpsteps - jj))

\* the while condition with an inclusive budget test, and with no budget
\* test before max_iter + 2
loop_condition_inclusive(fl, f, d, ii, p, avg, thr) ==
    IF ~QLt(d, QAbs(QSub(fl, f))) THEN [enter |-> FALSE, i |-> ii]
    ELSE IF ~(ii <= p.max_iter) THEN [enter |-> FALSE, i |-> ii + 1]
    ELSE [enter |-> QLt(avg, QNeg(thr)), i |-> ii + 1]

loop_condition_unbudgeted(fl, f, d, ii, p, avg, thr) ==
    IF ~QLt(d, QAbs(QSub(fl, f))) THEN [enter |-> FALSE, i |-> ii]
    ELSE [enter |-> QLt(avg, QNeg(thr)) /\ ii < p.max_iter + 2, i |-> ii + 1]

\* the while condition with its short-circuit evaluation; i is incremented
\* only when the first conjunct holds
loop_condition(fl, f, d, ii, p, avg, thr) ==
    IF ~QLt(d, QAbs(QSub(fl, f))) THEN [enter |-> FALSE, i |-> ii]
    ELSE IF ~(ii < p.max_iter) THEN [enter |-> FALSE, i |-> ii + 1]
    ELSE [enter |-> QLt(avg, QNeg(thr)), i |-> ii + 1]

\* the moment updates and the bias-corrected direction
adam_moments(p, m, v, g) ==
    [momentum |-> VAdd(VScale(p.beta1, m), VScale(QSub(QOne, p.beta1), g)),
     velocity |-> VAdd(VScale(p.beta2, v),
                       VScale(QSub(QOne, p.beta2), VSquare(g)))]

adam_direction(p, mv, ii) ==
    LET t_momentum ==
            VScale(QDiv(QOne, QSub(QOne, QPow(p.beta1, ii))), mv.momentum)
        t_velocity ==
            VScale(QDiv(QOne, QSub(QOne, QPow(p.beta2, ii))), mv.velocity)
        tmp == VShift(p.eps, VSqrt(t_velocity))
    IN  VDiv(t_momentum, tmp)

\* variant of the feasibility check that never shortens the step
feasibility_guard_off(astar, al) ==
    [reset |-> FALSE, dalpha |-> QOne]

\* variant of the feasibility check that also resets on equality
feasibility_guard_inclusive(astar, al) ==
    IF QLe(astar, QMul(QOne, al))
    THEN [reset |-> TRUE, dalpha |-> QDiv(QDiv(astar, al), QInt(4))]
    ELSE [reset |-> FALSE, dalpha |-> QOne]

\* the feasibility check: dalpha and whether the moments are reset
feasibility_guard(astar, al) ==
    IF QLt(astar, QMul(QOne, al))
    THEN [reset |-> TRUE, dalpha |-> QDiv(QDiv(astar, al), QInt(4))]
    ELSE [reset |-> FALSE, dalpha |-> QOne]

\* x -= alpha * dalpha * direction
apply_step(xv, al, dal, dir) == VSub(xv, VScale(QMul(al, dal), dir))

\* the sliding-window estimate of the average loss decrease
window_average(p, avg, f, fl) ==
    QDiv(QAdd(QMul(QInt(p.window - 1), avg), QSub(f, fl)), QInt(p.window))

\* variant of the decay that leaves the value alone
decay_none(value, factor) == value

\* gamma *= gammadec; alpha *= alphadec
decay(value, factor) == QMul(value, factor)

\* variant of the oracle call that passes the initial barrier weight
oracle_query_initial(pos, gam) == [pos |-> pos, gamma |-> Params.gamma]

\* the position and the barrier weight of prob(x, info, step, gamma)
oracle_query(pos, gam) == [pos |-> pos, gamma |-> gam]

\* a series that keeps only the newest point
series_push_newest(data, point) == <<point>>

\* series_t::operator<<: data.push_back(point)
series_push(data, point) == Append(data, point)

\* if constexpr (stats_enabled) stats.loss << fx
stats_loss(stats_enabled, data, value) ==
    IF stats_enabled THEN series_push(data, value) ELSE data

\* the state run starts from; stats_enabled is the template argument of run
\* and out holds stats.loss.data
InitRun(stats_enabled) ==
    /\ pc = "stage"
    /\ param = Params
    /\ feasibility_enabled \in BOOLEAN
    /\ j = 0
    /\ i = 0
    /\ x \in StartPositions
    /\ gradient = VZero
    /\ momentum = VZero
    /\ velocity = VZero
    /\ direction = VZero
    /\ fx = QZero
    /\ fxl = QInt(TMax)
    /\ avglossdecrease = QZero
    /\ gamma = Params.gamma
    /\ alpha = Params.alpha
    /\ diff = QZero
    /\ threshold = QZero
    /\ dalpha = QOne
    /\ step = [pos |-> VZero, rho |-> QZero, step |-> QZero]
    /\ info = [iter |-> 0]
    /\ hist = [evals |-> 0, updates |-> 0, stage_updates |-> 0, stages |-> <<>>,
              accumulated |-> 0, batches |-> <<>>,
              query |-> [pos |-> VZero, gamma |-> QZero]]
    /\ ret = <<>>
    /\ inp = [stats_enabled |-> stats_enabled]
    /\ out = <<>>

\* run<false>: no statistics
Init == InitRun(FALSE)

\* for (j < cpsteps): thresholds, first oracle call of the stage, loop set-up
StageBegin ==
    /\ pc = "stage"
    /\ j < param.cpsteps
    /\ diff' = stage_threshold(param.diff, param, j)
    /\ threshold' = stage_threshold(param.threshold, param, j)
    /\ info' = [iter |-> info.iter + 1]
    /\ hist' = [hist EXCEPT !.evals = @ + 1, !.stage_updates = 0,
                            !.stages = Append(@, j),
                            !.batches = Append(@, batch_index(info.iter, Problem.rows)),
                            !.query = oracle_query(x, gamma)]
    /\ IF throws(x)
       THEN /\ pc' = "aborted"
            /\ UNCHANGED <<gradient, fx, step, avglossdecrease, i, fxl, out>>
       ELSE /\ pc' = "test"
            /\ \E g \in Gradients, f \in Objectives :
                  /\ gradient' = g
                  /\ fx' = f
                  /\ out' = stats_loss(inp.stats_enabled, out, f)
            /\ step' = feasibility_init(step, x)
            /\ avglossdecrease' = QInt(-10)
            /\ i' = 0
            /\ fxl' = QInt(TMax)
    /\ UNCHANGED <<param, feasibility_enabled, j, x, momentum, velocity,
                   direction, gamma, alpha, dalpha, ret, inp>>

\* the while condition
LoopTest ==
    /\ pc = "test"
    /\ LET c == loop_condition(fxl, fx, diff, i, param, avglossdecrease, threshold)
       IN  /\ i' = c.i
           /\ pc' = IF c.enter THEN "body" ELSE "stage_end"
    /\ UNCHANGED <<param, feasibility_enabled, j, x, gradient, momentum,
                   velocity, direction, fx, fxl, avglossdecrease, gamma, alpha,
                   diff, threshold, dalpha, step, info, hist, ret, inp, out>>

\* the loop body: Adam update, feasibility check, step, oracle call
Update ==
    /\ pc = "body"
    /\ LET mv == adam_moments(param, momentum, velocity, gradient)
           dir == adam_direction(param, mv, i)
           astar == compute(step.pos, dir, step.rho)
           g == IF feasibility_enabled THEN feasibility_guard(astar, alpha)
                ELSE [reset |-> FALSE, dalpha |-> QOne]
           xn == apply_step(x, alpha, g.dalpha, dir)
           s1 == IF feasibility_enabled THEN [step EXCEPT !.step = astar]
                 ELSE step
       IN  /\ momentum' = IF g.reset THEN VZero ELSE mv.momentum
           /\ velocity' = IF g.reset THEN VZero ELSE mv.velocity
           /\ direction' = dir
           /\ dalpha' = g.dalpha
           /\ x' = xn
           /\ fxl' = fx
           /\ info' = [iter |-> info.iter + 1]
           /\ hist' = [hist EXCEPT !.evals = @ + 1, !.updates = @ + 1,
                                   !.stage_updates = @ + 1,
                                   !.accumulated = IF g.reset THEN 0 ELSE @ + 1,
                                   !.batches = Append(@, batch_index(info.iter, Problem.rows)),
                                   !.query = oracle_query(xn, gamma)]
           /\ IF throws(xn)
              THEN /\ pc' = "aborted"
                   /\ step' = s1
                   /\ UNCHANGED <<gradient, fx, avglossdecrease, out>>
              ELSE /\ pc' = "test"
                   /\ step' = feasibility_init(s1, xn)
                   /\ \E gr \in Gradients, f \in Objectives :
                         /\ gradient' = gr
                         /\ fx' = f
                         /\ out' = stats_loss(inp.stats_enabled, out, f)
                         /\ avglossdecrease' =
                               window_average(param, avglossdecrease, f, fx)
    /\ UNCHANGED <<param, feasibility_enabled, j, i, gamma, alpha, diff,
                   threshold, ret, inp>>

\* update stepsize and gamma, j++
StageEnd ==
    /\ pc = "stage_end"
    /\ gamma' = decay(gamma, param.gammadec)
    /\ alpha' = decay(alpha, param.alphadec)
    /\ j' = j + 1
    /\ pc' = "stage"
    /\ UNCHANGED <<param, feasibility_enabled, i, x, gradient, momentum,
                   velocity, direction, fx, fxl, avglossdecrease, diff,
                   threshold, dalpha, step, info, hist, ret, inp, out>>

\* return std::make_tuple(std::move(x), fx)
Return ==
    /\ pc = "stage"
    /\ ~(j < param.cpsteps)
    /\ ret' = <<x, fx>>
    /\ pc' = "done"
    /\ UNCHANGED <<param, feasibility_enabled, j, i, x, gradient, momentum,
                   velocity, direction, fx, fxl, avglossdecrease, gamma, alpha,
                   diff, threshold, dalpha, step, info, hist, inp, out>>

Next == StageBegin \/ LoopTest \/ Update \/ StageEnd \/ Return

Spec == Init /\ [][Next]_vars

\* run<true>: the objective trace stats.loss is recorded
InitStats == InitRun(TRUE)

SpecStats == InitStats /\ [][Next]_vars

\* The program is sequential: a step that can be taken is taken.  This is
\* weak fairness of every action.  Each action other than Return has a
\* successor whenever the control is at its step, and every step taken there
\* is its own, so its weak fairness says that the control does not stay at
\* that step forever.
SpecFair ==
    /\ Spec
    /\ WF_vars(Return)
    /\ []<>(~(pc = "stage" /\ j < param.cpsteps))
    /\ []<>(pc # "test")
    /\ []<>(pc # "body")
    /\ []<>(pc # "stage_end")

(***************************************************************************)
(* chi is positive definite exactly when every pivot of its block          *)
(* elimination is positive (no stabilisation added).                       *)
(***************************************************************************)
RECURSIVE chi_pivots_positive(_, _, _, _, _)
chi_pivots_positive(rho, W, t, k, prev) ==
    LET s == chi_sub(rho, W, t, k - 1)
        p == IF k = 0 THEN chi_diag(rho, W, t, 0)
             ELSE QSub(chi_diag(rho, W, t, k), QDiv(QMul(s, s), prev))
    IN  QLt(QZero, p) /\ (k = Len(W) \/ chi_pivots_positive(rho, W, t, k + 1, p))

PositiveDefinite(var) ==
    chi_pivots_positive(QPow(Problem.lipschitz, 2), var.W, var.t, 0, QOne)

\* C1: inside a stage the loop test leads to another Adam update if and only
\* if |fxl - fx| exceeds the stage's diff threshold, fewer than max_iter
\* updates were performed in this stage, and the window average is below
\* minus the stage's window threshold; otherwise the stage ends.
C1_UpdateIffAllThree ==
    [][pc = "test" =>
        LET stage_diff ==
                QMul(param.diff, QPow(param.beta3, param.cpsteps - j))
            stage_thr ==
                QMul(param.threshold, QPow(param.beta3, param.cpsteps - j))
            all_three ==
                /\ QLt(stage_diff, QAbs(QSub(fxl, fx)))
                /\ hist.stage_updates < param.max_iter
                /\ QLt(avglossdecrease, QNeg(stage_thr))
        IN  /\ (pc' = "body") <=> all_three
            /\ (pc' = "stage_end") <=> ~all_three]_vars

\* a stage that ended on the iteration budget alone
C1_Witness ==
    /\ pc = "stage_end"
    /\ hist.stage_updates = param.max_iter
    /\ QLt(diff, QAbs(QSub(fxl, fx)))
    /\ QLt(avglossdecrease, QNeg(threshold))

\* C2: with the guard enabled, an iteration resets both moments and moves by
\* astar/4 along the direction exactly when the safe step astar of the
\* proposed direction is smaller than alpha; otherwise it keeps the updated
\* moments and moves by alpha.
C2_GuardResetsExactlyWhenShort ==
    [][(pc = "body" /\ feasibility_enabled) =>
        LET astar == step'.step
            kept == adam_moments(param, momentum, velocity, gradient)
        IN  /\ astar = compute(x, direction', QPow(Problem.lipschitz, 2))
            /\ IF QLt(astar, alpha)
               THEN /\ momentum' = VZero
                    /\ velocity' = VZero
                    /\ x' = VSub(x, VScale(QDiv(astar, QInt(4)), direction'))
               ELSE /\ momentum' = kept.momentum
                    /\ velocity' = kept.velocity
                    /\ x' = VSub(x, VScale(alpha, direction'))]_vars

\* an iteration whose safe step was shorter than alpha has been taken
C2_Witness ==
    /\ feasibility_enabled
    /\ pc = "test"
    /\ hist.stage_updates >= 1
    /\ QLt(step.step, alpha)
    /\ momentum = VZero
    /\ dalpha = QDiv(QDiv(step.step, alpha), QInt(4))

\* C3: a stage transition multiplies gamma by gammadec and alpha by alphadec
\* and keeps the position; no other step changes gamma or alpha; stage j
\* runs with gamma0 * gammadec^j and alpha0 * alphadec^j.
C3_DecayPerStage ==
    [][/\ (j' = j + 1) =>
             /\ gamma' = QMul(gamma, param.gammadec)
             /\ alpha' = QMul(alpha, param.alphadec)
             /\ x' = x
       /\ (j' = j) => (gamma' = gamma /\ alpha' = alpha)
       /\ gamma' = QMul(param.gamma, QPow(param.gammadec, j'))
       /\ alpha' = QMul(param.alpha, QPow(param.alphadec, j'))]_vars

\* the second stage is iterating with the decayed step size
C3_Witness ==
    /\ pc = "test"
    /\ j = 1
    /\ hist.stage_updates >= 1
    /\ alpha = QMul(Params.alpha, Params.alphadec)
    /\ alpha # Params.alpha
    /\ gamma = QMul(Params.gamma, Params.gammadec)

\* C4: every run executes exactly cpsteps stages, in increasing order, and
\* then reaches done, returning the position and the objective.
C4_RunsAllStagesThenDone ==
    /\ [](\A k \in DOMAIN hist.stages : hist.stages[k] = k - 1)
    /\ <>(/\ pc = "done"
          /\ hist.stages = [k \in 1..param.cpsteps |-> k - 1]
          /\ ret = <<x, fx>>)

\* C5: every run terminates (it reaches done unless an oracle call fails to
\* return); a stage performs at most max_iter updates, the run at most
\* cpsteps * max_iter updates and cpsteps * (max_iter + 1) oracle calls.
C5_BoundedAndTerminates ==
    /\ [](/\ hist.stage_updates <= param.max_iter
          /\ hist.updates <= param.cpsteps * param.max_iter
          /\ hist.evals <= param.cpsteps * (param.max_iter + 1))
    /\ <>(pc = "done" \/ pc = "aborted")

\* a finished run that used the whole budget
C5_Witness ==
    /\ pc = "done"
    /\ hist.updates = param.cpsteps * param.max_iter
    /\ hist.evals = param.cpsteps * (param.max_iter + 1)

\* C7: when the factorization fails at a point the optimizer evaluates, the
\* run still returns a position and an objective.
C7_FailureAbsorbed ==
    [](throws(x) => <>(pc = "done" /\ ret = <<x, fx>>))

\* C8: with the guard enabled and a positive definite start, no
\* factorization fails and every iterate is inside the positive definite
\* cone.
C8_GuardKeepsFeasible ==
    feasibility_enabled => (pc # "aborted" /\ PositiveDefinite(x))

(***************************************************************************)
(* The factorization and the tail of the line search as pure functions:    *)
(* the input is drawn in the initial state and one action applies the      *)
(* function.  The optimizer's variables rest at their initial values.      *)
(***************************************************************************)
OptimizerAtRest ==
    /\ param = Params
    /\ feasibility_enabled = FALSE
    /\ j = 0
    /\ i = 0
    /\ x = VZero
    /\ gradient = VZero
    /\ momentum = VZero
    /\ velocity = VZero
    /\ direction = VZero
    /\ fx = QZero
    /\ fxl = QInt(TMax)
    /\ avglossdecrease = QZero
    /\ gamma = Params.gamma
    /\ alpha = Params.alpha
    /\ diff = QZero
    /\ threshold = QZero
    /\ dalpha = QOne
    /\ step = [pos |-> VZero, rho |-> QZero, step |-> QZero]
    /\ info = [iter |-> 0]
    /\ hist = [evals |-> 0, updates |-> 0, stage_updates |-> 0, stages |-> <<>>,
              accumulated |-> 0, batches |-> <<>>,
              query |-> [pos |-> VZero, gamma |-> QZero]]
    /\ ret = <<>>

optimizer_vars ==
    <<param, feasibility_enabled, j, i, x, gradient, momentum, velocity,
      direction, fx, fxl, avglossdecrease, gamma, alpha, diff, threshold,
      dalpha, step, info, hist, ret>>

\* the values the weights, the T-parameters and the bound are drawn from
WeightValues == {QZero, QInt(1), QInt(2)}
TValues == {Q(1, 2), QInt(1), QInt(2)}
LipschitzValues == {QInt(1), QInt(2)}

\* positions of the topologies (1,1,1) and (1,1,1,1)
CholInputs ==
    [lipschitz : LipschitzValues,
     W : [1..2 -> WeightValues] \cup [1..3 -> WeightValues],
     t : [1..1 -> TValues] \cup [1..2 -> TValues],
     with_t : BOOLEAN]

InitChol ==
    /\ pc = "chol"
    /\ inp \in {c \in CholInputs : Len(c.W) = Len(c.t) + 1}
    /\ out = <<>>
    /\ OptimizerAtRest

\* barrierfunction_t::chol on the drawn position
Chol ==
    /\ pc = "chol"
    /\ inp.with_t
    /\ out' = chol(inp.lipschitz, [W |-> inp.W, t |-> inp.t])
    /\ pc' = "chol_done"
    /\ UNCHANGED <<inp, optimizer_vars>>

\* barrierfunction_wot_t::chol on the drawn weights and T-parameters
CholWot ==
    /\ pc = "chol"
    /\ ~inp.with_t
    /\ out' = chol_wot(inp.lipschitz, inp.W, inp.t)
    /\ pc' = "chol_done"
    /\ UNCHANGED <<inp, optimizer_vars>>

NextChol == Chol \/ CholWot

SpecChol == InitChol /\ [][NextChol]_vars

\* the blocks handed to blaze::llh one after another, up to and including
\* the first one that is not positive definite; stab is what the variant
\* adds to a block before factoring it
RECURSIVE SchurBlocks(_, _, _, _, _)
SchurBlocks(stab, W, t, k, prev) ==
    LET X == IF k < Len(W)
             THEN QSub(QAdd(QMul(QInt(2), t[k]), stab),
                       QDiv(QMul(QMul(t[k], W[k]), QMul(t[k], W[k])), prev))
             ELSE QSub(QAdd(QOne, stab), QDiv(QMul(W[k], W[k]), prev))
    IN  IF k = Len(W) \/ ~QLt(QZero, X) THEN <<X>>
        ELSE <<X>> \o SchurBlocks(stab, W, t, k + 1, X)

InputBlocks ==
    SchurBlocks(IF inp.with_t THEN ratio ELSE QZero, inp.W, inp.t, 1,
                QMul(inp.lipschitz, inp.lipschitz))

\* C6: chol fails with NotPositiveDefinite when one of the blocks X_i it has
\* to factor (the block as handed to the Cholesky routine) is not positive
\* definite, and returns the factors D_0..D_L, L_0..L_{L-1}, with
\* D_i * trans(D_i) = X_i, when every X_i is positive definite.
C6_CholFailsIffBlockNotPD ==
    pc = "chol_done" =>
        LET X == InputBlocks
            every_pd == Len(X) = Len(inp.W) /\ \A k \in DOMAIN X : QLt(QZero, X[k])
        IN  /\ (\E k \in DOMAIN X : ~QLt(QZero, X[k])) => out = NotPositiveDefinite
            /\ every_pd =>
                  /\ out.ok
                  /\ Len(out.D) = Len(inp.W) + 1
                  /\ Len(out.L) = Len(inp.W)
                  /\ \A k \in DOMAIN X : SSq(out.D[k + 1]) = X[k]
            /\ out.ok <=> every_pd

\* a failure on a singular last block, the earlier blocks being definite
C6_Witness ==
    /\ pc = "chol_done"
    /\ out = NotPositiveDefinite
    /\ Len(InputBlocks) = Len(inp.W)
    /\ Len(inp.W) = 3
    /\ InputBlocks[3] = QZero

\* the pairs (alpha, beta) the eigenvalue solver can hand to the tail
PairValues ==
    {EigPair(QInt(-5), QZero, QOne), EigPair(QInt(1), QZero, QInt(-2)),
     EigPair(QInt(2), QZero, QOne), EigPair(QInt(-3), QOne, QOne), Infinite}

\* the number of pairs of the topology (1,1,1): 2 * NN
NPairs == 6

InitLineSearch ==
    /\ pc = "rr"
    /\ inp \in [1..NPairs -> PairValues]
    /\ out = <<>>
    /\ OptimizerAtRest

\* the map over the pairs and the return statement of compute
LineSearchTail ==
    /\ pc = "rr"
    /\ out' = max_rr(inp)
    /\ pc' = "rr_done"
    /\ UNCHANGED <<inp, optimizer_vars>>

NextLineSearch == LineSearchTail

SpecLineSearch == InitLineSearch /\ [][NextLineSearch]_vars

\* a pair is eligible (a candidate) when it is real with a well-defined
\* negative ratio
Eligible(pair) ==
    /\ QLt(QAbs(pair.im), Tol)
    /\ QLt(Tol, QAbs(pair.b))
    /\ QLt(QDiv(pair.re, pair.b), QZero)

Candidates(pairs) ==
    {QDiv(pairs[k].re, pairs[k].b) : k \in {n \in DOMAIN pairs : Eligible(pairs[n])}}

C10_ClosestCandidate ==
    (pc = "rr_done" /\ Candidates(inp) # {}) =>
        /\ out \in {QAbs(c) : c \in Candidates(inp)}
        /\ \A c \in Candidates(inp) : QLe(out, QAbs(c))

(***************************************************************************)
(* feasibilitycheck_wot_t::compute, the weights-only line search.  Its     *)
(* tail maps the real parts of the eigenvalues of R, takes the maximum and *)
(* returns 1.0 / (abs(maximum) + 0.001).                                   *)
(***************************************************************************)
\* the lambda with the floor replaced by 0
wot_clip_zero(val) == IF QLt(val, QZero) THEN QZero ELSE val

\* the lambda mapped over the eigenvalues
wot_clip(val) == IF QLt(val, QZero) THEN Q(1, 100) ELSE val

\* T eigenvalue = blaze::max(vals); return 1.0 / (abs(eigenvalue) + 0.001)
wot_step(vals) ==
    LET eigenvalue == blaze_max([k \in DOMAIN vals |-> wot_clip(vals[k])])
    IN  QDiv(QOne, QAdd(QAbs(eigenvalue), Q(1, 1000)))

\* real eigenvalues the solver can hand to the tail
EigValues == {QInt(-2), Q(-1, 200), QZero, Q(1, 200), Q(1, 8), QInt(3)}

\* the number of eigenvalues of the topology (1,1,1): NN
NEig == 3

InitWot ==
    /\ pc = "wot"
    /\ inp \in [1..NEig -> EigValues]
    /\ out = <<>>
    /\ OptimizerAtRest

\* the map over the eigenvalues and the return statement
WotTail ==
    /\ pc = "wot"
    /\ out' = wot_step(inp)
    /\ pc' = "wot_done"
    /\ UNCHANGED <<inp, optimizer_vars>>

NextWot == WotTail

SpecWot == InitWot /\ [][NextWot]_vars

NonNegative(vals) == {vals[k] : k \in {n \in DOMAIN vals : QLe(QZero, vals[n])}}

\* the largest element of a non-empty set of rationals
QSetMax(S) == CHOOSE m \in S : \A e \in S : QLe(e, m)

inv_tmp(val, m) == QDiv(val.L[m].c, val.D[m].c)

\* solve(trans(D), decllow(solve(D, identy)))
inv_DD(val, m) == QDiv(QOne, SSq(val.D[m]))

\* the sweep from the last layer down to the first: K = -trans(tmp * Pp) and
\* P = solve(trans(D), decllow(solve(D, identy))) - trans(tmp * K), Pp being
\* the block P of the layer above; P and K hold the blocks found so far
RECURSIVE inv_range(_, _, _, _)
inv_range(val, m, P, K) ==
    IF m = 0 THEN [P |-> P, K |-> K]
    ELSE LET tmp == inv_tmp(val, m)
             Km == QNeg(QMul(tmp, P[1]))
             Pm == QSub(inv_DD(val, m), QMul(tmp, Km))
         IN  inv_range(val, m - 1, <<Pm>> \o P, <<Km>> \o K)

\* the inverse with the sub-diagonal blocks left at zero
inv_diagonal_only(val) ==
    [P |-> [m \in 1..Len(val.D) |-> inv_DD(val, m)],
     K |-> [m \in 1..Len(val.L) |-> QZero]]

\* barrierfunction_t::inv(val) and barrierfunction_wot_t::inv(val): the last
\* block P first, then the sweep
inv(val) ==
    inv_range(val, Len(val.L), <<inv_DD(val, Len(val.D))>>, <<>>)

\* the weight loop of compute with the entries overwritten
weight_gradient_overwrite(grad, P, tparam, gam) ==
    [I \in DOMAIN grad.W |->
        IF I < Len(grad.W)
        THEN QMul(QMul(QInt(2), gam), QMul(tparam[I], P.K[I]))
        ELSE QMul(QMul(QInt(2), gam), P.K[I])]

\* the for_range<0,L> loop of compute: grad += 2*gam*expand(t[I]) % P.K[I]
\* for the inner layers, grad += 2*gam*P.K[I] for the last one
weight_gradient(grad, P, tparam, gam) ==
    [I \in DOMAIN grad.W |->
        IF I < Len(grad.W)
        THEN QAdd(grad.W[I],
                  QMul(QMul(QInt(2), gam), QMul(tparam[I], P.K[I])))
        ELSE QAdd(grad.W[I], QMul(QMul(QInt(2), gam), P.K[I]))]

\* the for_range<0,L-1> loop of compute:
\* grad += 2 * (diagonal(P.K[I] * trans(w)) - diagonal(P.P[I+1]))
t_gradient(grad, P, var) ==
    [I \in DOMAIN grad.t |->
        QAdd(grad.t[I],
             QMul(QInt(2), QSub(QMul(P.K[I], var.W[I]), P.P[I + 1])))]

\* the result of a call that threw NotPositiveDefinite: the buffer is as the
\* caller left it
compute_throws(grad) == [ok |-> FALSE, gradient |-> grad, L |-> NotPositiveDefinite]

\* the element of a singleton: {e(v) : v \in {x}} evaluates x once
Only(S) == CHOOSE e \in S : TRUE

\* barrierfunction_t::compute(lipschitz, var, gradient, gamma); grad is
\* the caller's buffer [W, b, t], returned with the factorization;
\* L = chol(lipschitz, var) and P = inv(L)
barrier_compute(lipschitz, var, grad, gam) ==
    Only({IF ~L.ok THEN compute_throws(grad)
          ELSE Only({[ok |-> TRUE,
                      gradient |-> [W |-> weight_gradient(grad, P, var.t, gam),
                                    b |-> grad.b,
                                    t |-> t_gradient(grad, P, var)],
                      L |-> L] : P \in {inv(L)}})
          : L \in {chol(lipschitz, var)}})

\* barrierfunction_wot_t::compute(lipschitz, var, gradient, tparam, gamma);
\* L = chol(lipschitz, var, tparam) and P = inv(L)
barrier_wot_compute(lipschitz, var, grad, tparam, gam) ==
    Only({IF ~L.ok THEN compute_throws(grad)
          ELSE Only({[ok |-> TRUE,
                      gradient |-> [W |-> weight_gradient(grad, P, tparam, gam),
                                    b |-> grad.b,
                                    t |-> grad.t],
                      L |-> L] : P \in {inv(L)}})
          : L \in {chol_wot(lipschitz, var.W, tparam)}})

\* the barrier weights the assembler is called with
GammaValues == {Q(1, 2), QInt(2)}

\* the caller's buffer: cleared, or holding the loss gradient
BufferValues(n) ==
    {[W |-> [k \in 1..n |-> QZero], b |-> [k \in 1..n |-> QZero],
      t |-> [k \in 1..(n - 1) |-> QZero]],
     [W |-> [k \in 1..n |-> QInt(k)], b |-> [k \in 1..n |-> QInt(7)],
      t |-> [k \in 1..(n - 1) |-> QInt(-k)]]}

\* positions with their biases: the topology (1,1,1) for the variant with
\* T, the topologies (1,1,1) and (1,1,1,1) for the variant without
BarrierInputs ==
    {c \in [lipschitz : LipschitzValues,
            W : [1..2 -> WeightValues] \cup [1..3 -> WeightValues],
            b : {<<QInt(3), QInt(3)>>, <<QInt(3), QInt(3), QInt(3)>>},
            t : [1..1 -> TValues] \cup [1..2 -> TValues],
            gradient : BufferValues(2) \cup BufferValues(3),
            gamma : GammaValues,
            with_t : BOOLEAN] :
        /\ Len(c.W) = Len(c.t) + 1
        /\ Len(c.b) = Len(c.W)
        /\ Len(c.gradient.W) = Len(c.W)
        /\ c.with_t => Len(c.W) = 2}

InitBarrier ==
    /\ pc = "barrier"
    /\ inp \in BarrierInputs
    /\ out = <<>>
    /\ OptimizerAtRest

\* barrierfunction_t::compute on the drawn position and buffer; var is passed
\* by const reference and is recorded as the call leaves it
Compute ==
    /\ pc = "barrier"
    /\ inp.with_t
    /\ LET var == [W |-> inp.W, b |-> inp.b, t |-> inp.t]
           r == barrier_compute(inp.lipschitz, var, inp.gradient, inp.gamma)
       IN  out' = [ok |-> r.ok, gradient |-> r.gradient, L |-> r.L, var |-> var]
    /\ pc' = "barrier_done"
    /\ UNCHANGED <<inp, optimizer_vars>>

\* barrierfunction_wot_t::compute, the T-parameters being the constant tparam
ComputeWot ==
    /\ pc = "barrier"
    /\ ~inp.with_t
    /\ LET var == [W |-> inp.W, b |-> inp.b]
           r == barrier_wot_compute(inp.lipschitz, var, inp.gradient, inp.t, inp.gamma)
       IN  out' = [ok |-> r.ok, gradient |-> r.gradient, L |-> r.L, var |-> var]
    /\ pc' = "barrier_done"
    /\ UNCHANGED <<inp, optimizer_vars>>

NextBarrier == Compute \/ ComputeWot

SpecBarrier == InitBarrier /\ [][NextBarrier]_vars

\* the buffer with every entry cleared
ClearedBuffer ==
    [W |-> [k \in DOMAIN inp.gradient.W |-> QZero],
     b |-> [k \in DOMAIN inp.gradient.b |-> QZero],
     t |-> [k \in DOMAIN inp.gradient.t |-> QZero]]

\* what the same call adds to a cleared buffer
BarrierContribution ==
    IF inp.with_t
    THEN barrier_compute(inp.lipschitz, [W |-> inp.W, b |-> inp.b, t |-> inp.t],
                         ClearedBuffer, inp.gamma).gradient
    ELSE barrier_wot_compute(inp.lipschitz, [W |-> inp.W, b |-> inp.b],
                             ClearedBuffer, inp.t, inp.gamma).gradient

\* C12: the assembler accumulates into the caller's buffer: after a call
\* that returns, every weight entry, and in the with-T variant every T entry,
\* is its value before the call plus the barrier contribution; the bias
\* entries of the buffer and the position are unchanged.
C12_AccumulatesIntoBuffer ==
    (pc = "barrier_done" /\ out.ok) =>
        /\ \A k \in DOMAIN inp.W :
              out.gradient.W[k] = QAdd(inp.gradient.W[k], BarrierContribution.W[k])
        /\ inp.with_t => \A k \in DOMAIN inp.t :
              out.gradient.t[k] = QAdd(inp.gradient.t[k], BarrierContribution.t[k])
        /\ ~inp.with_t => out.gradient.t = inp.gradient.t
        /\ out.gradient.b = inp.gradient.b
        /\ out.var.W = inp.W /\ out.var.b = inp.b
        /\ inp.with_t => out.var.t = inp.t

\* a call on a buffer holding a loss gradient, with a contribution that is
\* not zero in a weight entry and in a T entry
C12_Witness ==
    /\ pc = "barrier_done"
    /\ out.ok
    /\ inp.with_t
    /\ inp.gradient.W[1] # QZero
    /\ BarrierContribution.W[1] # QZero
    /\ BarrierContribution.t[1] # QZero
    /\ out.gradient.W[1] # inp.gradient.W[1]
    /\ out.gradient.b[1] = QInt(7)

\* the block contraction of the inverse blocks with the position, for a weight
\* entry: T_I * K_I for an inner layer, K_I for the last
WeightContraction(P, k) ==
    IF k < Len(inp.W) THEN QMul(inp.t[k], P.K[k]) ELSE P.K[k]

\* the block contraction for a T entry: diag(K_I * trans(W_I)) - diag(P_{I+1})
TContraction(P, k) == QSub(QMul(P.K[k], inp.W[k]), P.P[k + 1])

\* C13: every barrier gradient contribution, for each weight matrix and, in
\* the with-T variant, each T vector, is the block contraction scaled by
\* 2 * gamma.
C13_ContributionScaledByTwoGamma ==
    (pc = "barrier_done" /\ out.ok) =>
        LET P == inv(out.L)
            s == QMul(QInt(2), inp.gamma)
        IN  /\ \A k \in DOMAIN inp.W :
                  QSub(out.gradient.W[k], inp.gradient.W[k]) = QMul(s, WeightContraction(P, k))
            /\ inp.with_t => \A k \in DOMAIN inp.t :
                  QSub(out.gradient.t[k], inp.gradient.t[k]) = QMul(s, TContraction(P, k))

\* the weight contributions alone are scaled by 2 * gamma
C13_WeightContributionScaled ==
    (pc = "barrier_done" /\ out.ok) =>
        LET P == inv(out.L)
        IN  \A k \in DOMAIN inp.W :
                QSub(out.gradient.W[k], inp.gradient.W[k])
                    = QMul(QMul(QInt(2), inp.gamma), WeightContraction(P, k))

\* a T contribution that is twice the contraction whatever gamma is
C13_TContributionLacksGamma ==
    /\ pc = "barrier_done" /\ out.ok /\ inp.with_t
    /\ inp.gamma = Q(1, 2)
    /\ TContraction(inv(out.L), 1) # QZero
    /\ QSub(out.gradient.t[1], inp.gradient.t[1])
          = QMul(QInt(2), TContraction(inv(out.L), 1))

\* the last stage left its loop on the iteration budget alone: both stopping
\* criteria still ask for another iteration
BudgetExhausted ==
    /\ QLt(diff, QAbs(QSub(fxl, fx)))
    /\ QLt(avglossdecrease, QNeg(threshold))
    /\ ~(i < param.max_iter)

\* C14: when a stage exhausts its iteration budget without meeting either
\* stopping criterion, the run still returns, and the returned position is the
\* best found: no objective recorded during the run is lower than the one
\* returned with it.
C14_ReturnsBestFound ==
    (pc = "done" /\ BudgetExhausted) =>
        \A k \in DOMAIN out : QLe(ret[2], out[k])

\* the run returns after its last stage ran out of budget
C14_NotAborted ==
    /\ pc = "done"
    /\ BudgetExhausted
    /\ ret = <<x, fx>>

\* the returned pair is the last iterate with its objective, although a lower
\* objective was recorded earlier
C14_ReturnsLastIterate ==
    /\ pc = "done"
    /\ BudgetExhausted
    /\ ret = <<x, out[Len(out)]>>
    /\ \E k \in DOMAIN out : QLt(out[k], ret[2])

\* oracle evaluations that returned a value: the one of an aborted run threw
CompletedEvaluations == IF pc = "aborted" THEN hist.evals - 1 ELSE hist.evals

\* C15: with statistics enabled the objective trace receives exactly one
\* value per oracle evaluation, in evaluation order: one at the start of
\* every stage and one after every inner iteration.  The objective returned
\* by run is the last trace entry, and it is the oracle's value at the
\* returned position: the position does not change without being evaluated
\* in the same iteration.
C15_TraceOnePerEvaluation ==
    /\ [](Len(out) = CompletedEvaluations)
    /\ [](pc # "aborted" => Len(out) = Len(hist.stages) + hist.updates)
    /\ [](Len(out) > 0 => out[Len(out)] = fx)
    /\ [](pc = "done" => ret = <<x, out[Len(out)]>>)
    /\ [][out' = out \/ out' = Append(out, fx')]_vars
    /\ [][(hist'.evals # hist.evals /\ pc' # "aborted") => out' = Append(out, fx')]_vars
    /\ [][x' # x => (pc = "body" /\ hist'.evals = hist.evals + 1)]_vars

\* a run that returned after both stages used their whole budget, with a
\* trace of different values
C15_Witness ==
    /\ pc = "done"
    /\ inp.stats_enabled
    /\ Len(out) = CpSteps * (MaxIter + 1)
    /\ out[1] # out[2]
    /\ out[Len(out) - 1] # out[Len(out)]
    /\ ret[2] = out[Len(out)]

\* the largest number of central-path stages drawn
MaxStages == 4

\* parameter sets: beta3 below, at and above one
ThresholdParams ==
    [beta3 : {Q(1, 2), QInt(1), Q(3, 2), QInt(5)},
     cpsteps : 1..MaxStages,
     diff : {Q(1, 100), Q(1, 2)},
     threshold : {Q(1, 10), QInt(3)}]

InitThreshold ==
    /\ pc = "thresholds"
    /\ inp \in ThresholdParams
    /\ out = <<>>
    /\ OptimizerAtRest

\* the two assignments at the head of the stage loop, for stage j = Len(out)
StageThresholds ==
    /\ pc = "thresholds"
    /\ Len(out) < inp.cpsteps
    /\ out' = Append(out, [diff |-> stage_threshold(inp.diff, inp, Len(out)),
                           threshold |-> stage_threshold(inp.threshold, inp, Len(out))])
    /\ pc' = IF Len(out) + 1 < inp.cpsteps THEN "thresholds" ELSE "thresholds_done"
    /\ UNCHANGED <<inp, optimizer_vars>>

NextThreshold == StageThresholds

SpecThreshold == InitThreshold /\ [][NextThreshold]_vars

\* base * b * ... * b with n factors b
RECURSIVE Scaled(_, _, _)
Scaled(base, b, n) == IF n = 0 THEN base ELSE QMul(Scaled(base, b, n - 1), b)

\* C16: stage k (counted from 0) of S stages uses diff * beta3^(S-k) and
\* threshold * beta3^(S-k); for beta3 >= 1 the thresholds never loosen from
\* one stage to the next and the last stage uses the tightest ones.
C16_ThresholdsTighten ==
    /\ \A k \in DOMAIN out :
          /\ out[k].diff = Scaled(inp.diff, inp.beta3, inp.cpsteps - (k - 1))
          /\ out[k].threshold = Scaled(inp.threshold, inp.beta3, inp.cpsteps - (k - 1))
    /\ QLe(QOne, inp.beta3) =>
          /\ \A k \in DOMAIN out : k > 1 =>
                /\ QLe(out[k].diff, out[k - 1].diff)
                /\ QLe(out[k].threshold, out[k - 1].threshold)
          /\ pc = "thresholds_done" =>
                \A k \in DOMAIN out :
                    /\ QLe(out[Len(out)].diff, out[k].diff)
                    /\ QLe(out[Len(out)].threshold, out[k].threshold)

\* all stages of a path of four have their thresholds, the last strictly
\* below the first
C16_Witness ==
    /\ pc = "thresholds_done"
    /\ inp.cpsteps = MaxStages
    /\ QLt(QOne, inp.beta3)
    /\ Len(out) = inp.cpsteps
    /\ QLt(out[Len(out)].diff, out[1].diff)
    /\ out[Len(out)].diff = QMul(inp.diff, inp.beta3)

\* C17: every iteration runs oracle evaluation at the current position (the
\* loss gradient first, then the factorization and what depends on it), then
\* the feasibility query for the proposed direction when the guard is
\* enabled, then the position update.  The loss gradient has run in every
\* evaluation, also in one whose factorization threw; an evaluation that
\* returns stores the point it evaluated; the query is made on the stored
\* point, which is still the position; the update applies the step the query
\* allowed, and only an update changes the position.
C17_OracleQueryUpdateOrder ==
    /\ [](info.iter = hist.evals)
    /\ []((feasibility_enabled /\ pc \in {"test", "body", "stage_end"}) => step.pos = x)
    /\ [][(feasibility_enabled /\ hist'.evals # hist.evals /\ pc' # "aborted")
              => step'.pos = x']_vars
    /\ [][pc = "body" =>
              /\ feasibility_enabled =>
                    /\ step'.step = compute(x, direction', step.rho)
                    /\ dalpha' = feasibility_guard(step'.step, alpha).dalpha
              /\ x' = apply_step(x, alpha, dalpha', direction')
              /\ hist'.evals = hist.evals + 1]_vars
    /\ [][x' # x => pc = "body"]_vars

\* the guard is enabled and a second query is about to be made on the point
\* stored by the evaluation that followed an update which moved the position
C17_Witness ==
    /\ pc = "body"
    /\ feasibility_enabled
    /\ hist.updates >= 1
    /\ direction # VZero
    /\ x \notin StartPositions
    /\ step.pos = x

(***************************************************************************)
(* The factor as a matrix.  generate_lipschitz_train_l places D_k on the   *)
(* diagonal and L_k below it; the factors of one column carry the same     *)
(* radicand, so every entry of the product with the transpose is rational. *)
(***************************************************************************)
SZero == Surd(QZero, QOne)

\* generate_lipschitz_train_l(lower)
generate_lipschitz_train_l(lower) ==
    [r \in 1..Len(lower.D), c \in 1..Len(lower.D) |->
        IF r = c THEN lower.D[r]
        ELSE IF r = c + 1 THEN lower.L[c]
        ELSE SZero]

\* the product of two entries of one column
SMul(a, b) ==
    IF a.c = QZero \/ b.c = QZero THEN QZero ELSE QMul(a.c, QMul(b.c, a.r))

\* entry (r, c) of M * trans(M), summed over the columns k..n
RECURSIVE MulTransEntry(_, _, _, _, _)
MulTransEntry(M, n, r, c, k) ==
    IF k > n THEN QZero
    ELSE QAdd(SMul(M[r, k], M[c, k]), MulTransEntry(M, n, r, c, k + 1))

\* M * trans(M)
MulTrans(M, n) == [r \in 1..n, c \in 1..n |-> MulTransEntry(M, n, r, c, 1)]

\* chi(rho, W, t) as a matrix
chi_matrix(rho, W, t) ==
    [r \in 1..(Len(W) + 1), c \in 1..(Len(W) + 1) |->
        IF r = c THEN chi_diag(rho, W, t, r - 1)
        ELSE IF r = c + 1 THEN chi_sub(rho, W, t, c - 1)
        ELSE IF c = r + 1 THEN chi_sub(rho, W, t, r - 1)
        ELSE QZero]

\* the three factorizations: barrierfunction_t::chol with and without the
\* stabilisation, and barrierfunction_wot_t::chol
FactorInputs ==
    [lipschitz : LipschitzValues,
     W : [1..2 -> WeightValues] \cup [1..3 -> WeightValues],
     t : [1..1 -> TValues] \cup [1..2 -> TValues],
     with_t : BOOLEAN,
     numeric_stability : BOOLEAN]

InitFactor ==
    /\ pc = "factor"
    /\ inp \in {c \in FactorInputs :
                   /\ Len(c.W) = Len(c.t) + 1
                   /\ c.numeric_stability => c.with_t}
    /\ out = <<>>
    /\ OptimizerAtRest

\* barrierfunction_t::chol<numeric_stability> on the drawn position
Factorize ==
    /\ pc = "factor"
    /\ inp.with_t
    /\ out' = chol_t(inp.numeric_stability, inp.lipschitz, [W |-> inp.W, t |-> inp.t])
    /\ pc' = "factor_done"
    /\ UNCHANGED <<inp, optimizer_vars>>

\* barrierfunction_wot_t::chol on the drawn weights and T-parameters
FactorizeWot ==
    /\ pc = "factor"
    /\ ~inp.with_t
    /\ out' = chol_wot(inp.lipschitz, inp.W, inp.t)
    /\ pc' = "factor_done"
    /\ UNCHANGED <<inp, optimizer_vars>>

NextFactor == Factorize \/ FactorizeWot

SpecFactor == InitFactor /\ [][NextFactor]_vars

\* chi of the drawn position
InputChi == chi_matrix(QPow(inp.lipschitz, 2), inp.W, inp.t)

\* chi of the drawn position is positive definite
InputChiPD == chi_pivots_positive(QPow(inp.lipschitz, 2), inp.W, inp.t, 0, QOne)

\* the product of the assembled factor with its transpose
Reconstructed ==
    MulTrans(generate_lipschitz_train_l(out), Len(out.D))

\* what the stabilisation adds to chi: the ratio on the diagonal of every
\* block but the first
Stabilisation ==
    [r \in 1..(Len(inp.W) + 1), c \in 1..(Len(inp.W) + 1) |->
        IF inp.numeric_stability /\ r = c /\ r > 1 THEN ratio ELSE QZero]

\* C18, as the code has it: for a positive definite chi the factorization
\* succeeds and the assembled factor times its transpose is chi plus the
\* stabilisation: chi itself when chol runs without numeric_stability and in
\* the weights-only variant, chi + ratio * diag(0, I, ..., I) with the
\* default numeric_stability = true.
C18_RoundTripUpToStabilisation ==
    pc = "factor_done" =>
        /\ InputChiPD => out.ok
        /\ out.ok => \A r \in 1..Len(out.D), c \in 1..Len(out.D) :
              Reconstructed[r, c] = QAdd(InputChi[r, c], Stabilisation[r, c])

\* C18, as stated: for every positive definite chi the assembled factor times
\* its transpose is chi.
C18_RoundTripExact ==
    (pc = "factor_done" /\ InputChiPD) =>
        /\ out.ok
        /\ \A r \in 1..Len(out.D), c \in 1..Len(out.D) :
              Reconstructed[r, c] = InputChi[r, c]

\* a stabilised factorization of a positive definite chi with four blocks,
\* none of its sub-diagonal entries zero
C18_Witness ==
    /\ pc = "factor_done"
    /\ InputChiPD
    /\ inp.numeric_stability
    /\ Len(inp.W) = 3
    /\ out.ok
    /\ \A k \in 1..3 : InputChi[k + 1, k] # QZero
    /\ Reconstructed[2, 2] = QAdd(InputChi[2, 2], ratio)

\* factorizations handed to inv: the stabilised one for the topology (1,1,1),
\* the others for (1,1,1) and (1,1,1,1)
InverseInputs ==
    {c \in FactorInputs :
        /\ Len(c.W) = Len(c.t) + 1
        /\ c.numeric_stability => (c.with_t /\ Len(c.W) = 2)}

InitInverse ==
    /\ pc = "inverse"
    /\ inp \in InverseInputs
    /\ out = <<>>
    /\ OptimizerAtRest

\* barrierfunction_t::inv on the factorization of the drawn position
Invert ==
    /\ pc = "inverse"
    /\ inp.with_t
    /\ LET val == chol_t(inp.numeric_stability, inp.lipschitz,
                         [W |-> inp.W, t |-> inp.t])
       IN  out' = IF val.ok THEN [ok |-> TRUE, val |-> val, res |-> inv(val)]
                  ELSE [ok |-> FALSE, val |-> val, res |-> <<>>]
    /\ pc' = "inverse_done"
    /\ UNCHANGED <<inp, optimizer_vars>>

\* barrierfunction_wot_t::inv on the factorization of the drawn weights
InvertWot ==
    /\ pc = "inverse"
    /\ ~inp.with_t
    /\ LET val == chol_wot(inp.lipschitz, inp.W, inp.t)
       IN  out' = IF val.ok THEN [ok |-> TRUE, val |-> val, res |-> inv(val)]
                  ELSE [ok |-> FALSE, val |-> val, res |-> <<>>]
    /\ pc' = "inverse_done"
    /\ UNCHANGED <<inp, optimizer_vars>>

NextInverse == Invert \/ InvertWot

SpecInverse == InitInverse /\ [][NextInverse]_vars

\* the matrix that was factored: chi plus the stabilisation
Factored ==
    [r \in 1..(Len(inp.W) + 1), c \in 1..(Len(inp.W) + 1) |->
        QAdd(InputChi[r, c], Stabilisation[r, c])]

\* leading principal minors of a symmetric tridiagonal matrix
RECURSIVE LeadingMinor(_, _)
LeadingMinor(A, k) ==
    IF k = 0 THEN QOne
    ELSE IF k = 1 THEN A[1, 1]
    ELSE QSub(QMul(A[k, k], LeadingMinor(A, k - 1)),
              QMul(QMul(A[k, k - 1], A[k, k - 1]), LeadingMinor(A, k - 2)))

\* trailing principal minors: rows and columns k..n
RECURSIVE TrailingMinor(_, _, _)
TrailingMinor(A, n, k) ==
    IF k > n THEN QOne
    ELSE IF k = n THEN A[n, n]
    ELSE QSub(QMul(A[k, k], TrailingMinor(A, n, k + 1)),
              QMul(QMul(A[k + 1, k], A[k + 1, k]), TrailingMinor(A, n, k + 2)))

\* entry (m, m) of the inverse of A, by cofactors
InverseDiagonal(A, n, m) ==
    QDiv(QMul(LeadingMinor(A, m - 1), TrailingMinor(A, n, m + 1)),
         LeadingMinor(A, n))

\* entry (m + 1, m) of the inverse of A, by cofactors
InverseSubDiagonal(A, n, m) ==
    QDiv(QNeg(QMul(A[m + 1, m],
                   QMul(LeadingMinor(A, m - 1), TrailingMinor(A, n, m + 2)))),
         LeadingMinor(A, n))

\* the blocks of res embedded into a full symmetric matrix, zero elsewhere
Embedded(res, n) ==
    [r \in 1..n, c \in 1..n |->
        IF r = c THEN res.P[r]
        ELSE IF r = c + 1 THEN res.K[c]
        ELSE IF c = r + 1 THEN res.K[r]
        ELSE QZero]

\* entry (r, c) of B * A, summed over k..n
RECURSIVE MulEntry(_, _, _, _, _, _)
MulEntry(B, A, n, r, c, k) ==
    IF k > n THEN QZero
    ELSE QAdd(QMul(B[r, k], A[k, c]), MulEntry(B, A, n, r, c, k + 1))

Identity(r, c) == IF r = c THEN QOne ELSE QZero

\* C19, as the code has it: the blocks P_0..P_L and K_0..K_{L-1} returned by
\* inv are the diagonal and first sub-diagonal blocks of the inverse of the
\* matrix that was factored, which is chi for a factorization without
\* stabilisation and chi + ratio * diag(0, I, ..., I) for the default one.
\* Embedded into a full matrix and multiplied by the factored matrix they
\* give the identity on the diagonal blocks.
C19_InverseBlocks ==
    (pc = "inverse_done" /\ out.ok) =>
        LET n == Len(inp.W) + 1
            A == Factored
        IN  /\ \A m \in 1..n : out.res.P[m] = InverseDiagonal(A, n, m)
            /\ \A m \in 1..(n - 1) : out.res.K[m] = InverseSubDiagonal(A, n, m)
            /\ \A m \in 1..n : MulEntry(Embedded(out.res, n), A, n, m, m, 1) = QOne

\* C19, as stated: for every factorization of a positive definite chi the
\* blocks returned by inv are the diagonal and first sub-diagonal blocks of
\* the inverse of chi, i.e. embedded into a full matrix and multiplied by chi
\* they give the identity on the diagonal and first off-diagonal blocks.
C19_InverseTimesChiIsIdentity ==
    (pc = "inverse_done" /\ InputChiPD /\ out.ok) =>
        LET n == Len(inp.W) + 1
            A == InputChi
        IN  /\ \A m \in 1..n : out.res.P[m] = InverseDiagonal(A, n, m)
            /\ \A m \in 1..(n - 1) : out.res.K[m] = InverseSubDiagonal(A, n, m)
            /\ \A r \in 1..n, c \in 1..n :
                  (r - c \in {-1, 0, 1}) =>
                      MulEntry(Embedded(out.res, n), A, n, r, c, 1) = Identity(r, c)

\* an exact factorization of a chi with four blocks was inverted, no
\* sub-diagonal block of the inverse being zero
C19_Witness ==
    /\ pc = "inverse_done"
    /\ out.ok
    /\ ~inp.numeric_stability
    /\ Len(inp.W) = 3
    /\ \A m \in 1..3 : out.res.K[m] # QZero
    /\ out.res.P[1] = InverseDiagonal(InputChi, 4, 1)

\* on an exact factorization the product with chi is not the identity in a
\* first off-diagonal block
C19_OffDiagonalNotIdentity ==
    /\ pc = "inverse_done"
    /\ out.ok
    /\ ~inp.numeric_stability
    /\ out.res.P[1] = InverseDiagonal(InputChi, Len(inp.W) + 1, 1)
    /\ MulEntry(Embedded(out.res, Len(inp.W) + 1), InputChi, Len(inp.W) + 1, 1, 2, 1) # QZero

(***************************************************************************)
(* The line searches on positions.  For the topology (1,1,1),              *)
(* det chi = rho * (2*t - w1^2) - t^2 * w0^2.  feasibilitycheck_wot_t      *)
(* takes the eigenvalues of R = -solve(L, trans(solve(L, D))): for a       *)
(* direction (dw0, 0) they are 0 and the reciprocals 1/a of the two roots  *)
(* a of det chi(W - a * dW) = 0, i.e. of t * (w0 - a * dw0) = +-s with     *)
(* s = sqrt(rho * (2*t - w1^2)).                                           *)
(***************************************************************************)
IsSquare(n) == \E r \in 0..n : r * r = n
QIsSquare(a) == a[1] >= 0 /\ IsSquare(a[1]) /\ IsSquare(a[2])

\* blaze::real(blaze::eigen(R)) for the direction (dw0, 0)
eigen_R(rho, weights, tparam, dw0) ==
    LET s == QSqrt(QMul(rho, QSub(QMul(QInt(2), tparam[1]),
                                  QMul(weights[2], weights[2]))))
        a1 == QDiv(QSub(weights[1], QDiv(s, tparam[1])), dw0)
        a2 == QDiv(QAdd(weights[1], QDiv(s, tparam[1])), dw0)
    IN  <<QDiv(QOne, a1), QDiv(QOne, a2), QZero>>

\* feasibilitycheck_wot_t::compute for the direction (dw0, 0)
compute_wot(rho, weights, tparam, dw0) == wot_step(eigen_R(rho, weights, tparam, dw0))

\* the bounds the searches are run with
SearchLipschitz == {QInt(1), QInt(2), QInt(5)}

\* feasible points of the topology (1,1,1) with a direction in T (with_t) or
\* in the first weight (weights only), every root of the pencil rational
SearchInputs ==
    {c \in [lipschitz : SearchLipschitz,
            W : [1..2 -> {QZero, QInt(1), QInt(2), QInt(3)}],
            t : [1..1 -> TValues],
            d : {QInt(-1), Q(1, 2), QInt(1)},
            with_t : BOOLEAN] :
        LET rho == QPow(c.lipschitz, 2)
            w00 == QMul(c.W[1], c.W[1])
            w11 == QMul(c.W[2], c.W[2])
            disc == QMul(rho, QSub(rho, QMul(w00, w11)))
        IN  /\ chi_pivots_positive(rho, c.W, c.t, 0, QOne)
            /\ c.with_t => (c.W[1] = QZero \/ QIsSquare(QAbs(disc)))
            /\ ~c.with_t => QIsSquare(QMul(rho, QSub(QMul(QInt(2), c.t[1]), w11)))}

InitSearch ==
    /\ pc = "search"
    /\ inp \in SearchInputs
    /\ out = <<>>
    /\ OptimizerAtRest

\* feasibilitycheck_t::compute at the drawn point for a direction in T
Search ==
    /\ pc = "search"
    /\ inp.with_t
    /\ out' = compute([W |-> inp.W, t |-> inp.t],
                      [W |-> <<QZero, QZero>>, t |-> <<inp.d>>],
                      QPow(inp.lipschitz, 2))
    /\ pc' = "search_done"
    /\ UNCHANGED <<inp, optimizer_vars>>

\* feasibilitycheck_wot_t::compute at the drawn point for a direction in W_0
SearchWot ==
    /\ pc = "search"
    /\ ~inp.with_t
    /\ out' = compute_wot(QPow(inp.lipschitz, 2), inp.W, inp.t, inp.d)
    /\ pc' = "search_done"
    /\ UNCHANGED <<inp, optimizer_vars>>

NextSearch == Search \/ SearchWot

SpecSearch == InitSearch /\ [][NextSearch]_vars

\* chi is positive definite at the point reached from the drawn one by the
\* step a against the direction
FeasibleAfter(a) ==
    LET rho == QPow(inp.lipschitz, 2) IN
    IF inp.with_t
    THEN chi_pivots_positive(rho, inp.W, <<QSub(inp.t[1], QMul(a, inp.d))>>, 0, QOne)
    ELSE chi_pivots_positive(rho, <<QSub(inp.W[1], QMul(a, inp.d)), inp.W[2]>>,
                             inp.t, 0, QOne)

\* what "slightly" below and above the returned step is taken to be: one
\* hundredth of the step
SlightlyBelow(a) == QMul(a, Q(99, 100))
SlightlyAbove(a) == QMul(a, Q(101, 100))

\* C20: for any feasible point and any direction, chi at a step slightly
\* below the returned step is positive semidefinite, and chi at a step
\* slightly above it has a negative eigenvalue, so is not positive definite.
C20_SoundAndTight ==
    pc = "search_done" =>
        /\ FeasibleAfter(SlightlyBelow(out))
        /\ ~FeasibleAfter(SlightlyAbove(out))

\* the soundness half alone
C20_SoundBelow ==
    pc = "search_done" => FeasibleAfter(SlightlyBelow(out))

\* the search with T reports 1 although the boundary of the cone lies
\* between 1.4 and 2 times the direction
C20_NotTightWithT ==
    /\ pc = "search_done"
    /\ inp.with_t
    /\ out = QOne
    /\ \A k \in 1..14 : FeasibleAfter(Q(k, 10))
    /\ ~FeasibleAfter(QInt(2))

\* the weights-only search reports a step that can be exceeded
C20_NotTightWot ==
    /\ pc = "search_done"
    /\ ~inp.with_t
    /\ FeasibleAfter(SlightlyAbove(out))

\* ---------------------------------------------------------------------
\* C21: with the guard enabled, the step length applied to the position,
\* alpha * dalpha, never exceeds the safe step astar that the line search
\* returned for the direction of that iteration.
C21_AppliedStepWithinSafeStep ==
    [][(pc = "body" /\ feasibility_enabled) =>
        /\ step'.step = compute(x, direction', QPow(Problem.lipschitz, 2))
        /\ QLe(QMul(alpha, dalpha'), step'.step)
        /\ x' = VSub(x, VScale(QMul(alpha, dalpha'), direction'))]_vars

\* the guard has shortened a step to a positive length below the safe step
C21_Witness ==
    /\ feasibility_enabled
    /\ pc = "test"
    /\ hist.stage_updates >= 1
    /\ dalpha # QOne
    /\ QLt(QZero, QMul(alpha, dalpha))
    /\ QLt(QMul(alpha, dalpha), step.step)

\* ---------------------------------------------------------------------
\* the Schur complement X_k of a returned factorization before any
\* stabilisation: the local diagonal content (2*t_k for a hidden block, the
\* identity for the output block) minus L_{k-1} * trans(L_{k-1})
SchurComplement(k) ==
    QSub(IF k < Len(inp.W) THEN QMul(QInt(2), inp.t[k]) ELSE QOne,
         SSq(out.L[k]))

\* the ratio the stabilised factorization is documented to add: 1/100
DefaultRatio == Q(1, 100)

\* C22: with the stabilisation enabled chol factors X_k + (1/100)*I for
\* every Schur complement X_1..X_L, the output-layer block included, adding
\* the ratio exactly once; without it chol factors X_k itself; in both cases
\* the first diagonal factor D_0 is the Lipschitz bound.
C22_StabilisationAddedOncePerBlock ==
    (pc = "factor_done" /\ inp.with_t /\ out.ok) =>
        /\ out.D[1] = SRat(inp.lipschitz)
        /\ Len(out.D) = Len(inp.W) + 1
        /\ \A k \in 1..Len(inp.W) :
              SSq(out.D[k + 1]) =
                  IF inp.numeric_stability
                  THEN QAdd(SchurComplement(k), DefaultRatio)
                  ELSE SchurComplement(k)

\* a stabilised factorization of three layers with non-zero couplings
C22_Witness ==
    /\ pc = "factor_done"
    /\ inp.with_t
    /\ inp.numeric_stability
    /\ out.ok
    /\ Len(inp.W) = 3
    /\ \A k \in 1..3 : out.L[k].c # QZero
    /\ SSq(out.D[4]) = QAdd(SchurComplement(3), DefaultRatio)

\* ---------------------------------------------------------------------
\* adam_barrier_t::parameter_t built by a braced initialiser list: the
\* values fill the members in declaration order, a member without a value
\* is value-initialised to zero
parameter_t(values) ==
    LET member(k) == IF k <= Len(values) THEN values[k] ELSE QZero
    IN  [max_iter |-> member(1), cpsteps |-> member(2), diff |-> member(3),
         threshold |-> member(4), window |-> member(5), gamma |-> member(6),
         alpha |-> member(7), beta1 |-> member(8), beta2 |-> member(9),
         beta3 |-> member(10), alphadec |-> member(11),
         gammadec |-> member(12), eps |-> member(13)]

\* the numerical offset written in the initialiser lists of main: 1e-8
AdamEps == Q(1, 100000000)

\* the options of the training program, the defaults among them
CliOptions ==
    [method : {"BARR", "BARRF"},
     maxiter : {MaxIter}, centralpathsteps : {CpSteps},
     diff : {Q(1, 100000000), Q(1, 2)}, threshold : {Q(1, 100000000), Q(1, 2)},
     window : {300},
     rho : {Q(1, 10), QOne}, alpha : {Q(1, 50), QOne},
     beta : {QInt(5), QInt(2)},
     rhodec : {Q(1, 2), Q(1, 4)}, alphadec : {Q(1, 2), Q(3, 4)},
     beta1 : {Q(9, 10)}, beta2 : {Q(999, 1000)}]

InitCli ==
    /\ pc = "cli"
    /\ inp \in CliOptions
    /\ out = <<>>
    /\ OptimizerAtRest

\* main, cases BARR and BARRF: the solver is constructed from the options
\* and run starts with gamma = param.gamma, alpha = param.alpha
MainBarrier ==
    /\ pc = "cli"
    /\ LET p == parameter_t(<<inp.maxiter, inp.centralpathsteps, inp.diff,
                              inp.threshold, inp.window, inp.rho, inp.alpha,
                              inp.beta1, inp.beta2, inp.alphadec, inp.rhodec,
                              AdamEps>>)
       IN  out' = [param |-> p, feasibility_enabled |-> inp.method = "BARRF",
                   gamma |-> p.gamma, alpha |-> p.alpha]
    /\ pc' = "cli_stage"
    /\ UNCHANGED <<inp, optimizer_vars>>

\* the end of the first stage of the run: gamma and alpha decay
CliStageEnd ==
    /\ pc = "cli_stage"
    /\ out' = [out EXCEPT !.gamma = decay(out.gamma, out.param.gammadec),
                          !.alpha = decay(out.alpha, out.param.alphadec)]
    /\ pc' = "cli_decayed"
    /\ UNCHANGED <<inp, optimizer_vars>>

NextCli == MainBarrier \/ CliStageEnd

SpecCli == InitCli /\ [][NextCli]_vars

\* C23: in the barrier methods of the training program the options reach
\* the hyper-parameter of the same meaning: between stages gamma is
\* multiplied by the option rhodec and alpha by the option alphadec, and the
\* numerical offset eps of Adam is 1e-8.
C23_OptionsReachTheirParameter ==
    /\ pc \in {"cli_stage", "cli_decayed"} =>
          /\ out.param.gammadec = inp.rhodec
          /\ out.param.alphadec = inp.alphadec
          /\ out.param.eps = AdamEps
    /\ pc = "cli_decayed" =>
          /\ out.gamma = QMul(inp.rho, inp.rhodec)
          /\ out.alpha = QMul(inp.alpha, inp.alphadec)

\* what the initialiser list does: the value of alphadec lands in beta3, the
\* value of rhodec in alphadec, 1e-8 in gammadec, and eps is left zero
C23_OptionsShiftedByOne ==
    pc \in {"cli_stage", "cli_decayed"} =>
        /\ out.param.beta3 = inp.alphadec
        /\ out.param.alphadec = inp.rhodec
        /\ out.param.gammadec = AdamEps
        /\ out.param.eps = QZero

\* ---------------------------------------------------------------------
\* C24: in every Adam update the exponent i of the bias-correction factors
\* is at least 1 and equals the number of moment updates accumulated since
\* the accumulators were last zero (the start of the run or a reset by the
\* guard), the update under way included, also across stage boundaries.
C24_ExponentCountsAccumulatedUpdates ==
    pc = "body" => (i >= 1 /\ i = hist.accumulated + 1)

\* the part that holds: the exponent is the number of the update within its
\* stage, so it is at least 1
C24_ExponentCountsStageUpdates ==
    pc = "body" => (i >= 1 /\ i = hist.stage_updates + 1)

\* the first update of a later stage on moments carried over from the
\* stage before
C24_CarriedOver ==
    /\ pc = "body"
    /\ j >= 1
    /\ i = 1
    /\ hist.accumulated >= 1
    /\ momentum # VZero

\* ---------------------------------------------------------------------
\* the objective values the oracle returned in the current stage: the one of
\* the stage head and one per update
StageObjectives ==
    SubSeq(out, Len(out) - hist.stage_updates, Len(out))

\* the differences between successive objective values of the stage
StageDifferences ==
    {QSub(StageObjectives[k + 1], StageObjectives[k]) :
        k \in 1..(Len(StageObjectives) - 1)}

\* the sliding-window recursion over the differences of the stage, started
\* from the value seed
RECURSIVE WindowOver(_, _, _)
WindowOver(values, n, seed) ==
    IF n = 0 THEN seed
    ELSE window_average(param, WindowOver(values, n - 1, seed),
                        values[n + 1], values[n])

\* C25: the sliding-window estimate of the average loss decrease is built
\* only from the differences between successive objective values of the
\* stage, no placeholder value enters it: after an update it lies between
\* the smallest and the largest of these differences.
C25_EstimateFromDifferencesOnly ==
    (pc = "test" /\ hist.stage_updates >= 1) =>
        /\ \E d \in StageDifferences : QLe(d, avglossdecrease)
        /\ \E d \in StageDifferences : QLe(avglossdecrease, d)

\* what the code computes: the recursion over the differences of the stage
\* started from the value -10 that the stage head assigns
C25_EstimateSeededWithMinusTen ==
    (pc = "test" /\ hist.stage_updates >= 1) =>
        avglossdecrease =
            WindowOver(StageObjectives, hist.stage_updates, QInt(-10))

\* ---------------------------------------------------------------------
\* variant of the oracle's objective that adds the barrier weight to the loss
oracle_objective_weighted(objective, gam) == QAdd(objective, gam)

\* the objective the oracle returns: the variable the back-propagation run
\* added the mini-batch loss to; compute receives var, gradient and gamma only
oracle_objective(objective, gam) == objective

\* network_problem_log_barrier_t::run and network_problem_log_barrier_wot_t::run
\* after the back-propagation run: back is what that run left in the cleared
\* gradient and in the objective
problem_run(with_t, gamma_enabled, lipschitz, var, tparam, level, back) ==
    LET gam == IF gamma_enabled THEN level ELSE QOne
        grad == [W |-> back.W, b |-> back.b,
                 t |-> [k \in DOMAIN tparam |-> QZero]]
    IN  Only({[ok |-> r.ok, gradient |-> r.gradient,
               objective |-> oracle_objective(back.objective, gam)]
              : r \in {IF with_t
                       THEN barrier_compute(lipschitz, var, grad, gam)
                       ELSE barrier_wot_compute(lipschitz, var, grad, tparam, gam)}})

\* positions with the result of the back-propagation run on a mini-batch
OracleInputs ==
    {[lipschitz |-> c.lipschitz, W |-> c.W, b |-> c.b, t |-> c.t,
      with_t |-> c.with_t, gamma |-> c.gamma, gamma_enabled |-> e,
      back |-> [W |-> c.gradient.W, b |-> c.gradient.b, objective |-> QInt(f)]]
     : c \in {d \in BarrierInputs : d.gradient.b[1] # QZero},
       e \in BOOLEAN, f \in {3, 8}}

InitOracle ==
    /\ pc = "oracle"
    /\ inp \in OracleInputs
    /\ out = <<>>
    /\ OptimizerAtRest

\* network_problem_log_barrier_t::run
OracleRun ==
    /\ pc = "oracle"
    /\ inp.with_t
    /\ out' = problem_run(TRUE, inp.gamma_enabled, inp.lipschitz,
                          [W |-> inp.W, b |-> inp.b, t |-> inp.t], inp.t,
                          inp.gamma, inp.back)
    /\ pc' = "oracle_done"
    /\ UNCHANGED <<inp, optimizer_vars>>

\* network_problem_log_barrier_wot_t::run
OracleRunWot ==
    /\ pc = "oracle"
    /\ ~inp.with_t
    /\ out' = problem_run(FALSE, inp.gamma_enabled, inp.lipschitz,
                          [W |-> inp.W, b |-> inp.b], inp.t,
                          inp.gamma, inp.back)
    /\ pc' = "oracle_done"
    /\ UNCHANGED <<inp, optimizer_vars>>

NextOracle == OracleRun \/ OracleRunWot

SpecOracle == InitOracle /\ [][NextOracle]_vars

\* C26: the objective the barrier oracle returns is the mini-batch loss
\* alone: the barrier assembler adds to the gradient but leaves the objective
\* as the back-propagation run produced it, whatever gamma and chi are.
C26_ObjectiveIsLossAlone ==
    (pc = "oracle_done" /\ out.ok) => out.objective = inp.back.objective

\* an evaluation with a barrier weight other than 1 in which the assembler
\* changed the weight gradient
C26_Witness ==
    /\ pc = "oracle_done"
    /\ out.ok
    /\ inp.gamma_enabled
    /\ inp.gamma # QOne
    /\ out.gradient.W # inp.back.W
    /\ out.objective = QInt(8)

\* ---------------------------------------------------------------------
\* C27: every gradient used in an Adam update of a stage was produced by an
\* oracle evaluation at the current position with the barrier weight of that
\* stage: the oracle is evaluated again at the head of each stage, after
\* gamma has decayed, and after every update of the position.
C27_GradientFromCurrentStage ==
    /\ [](pc \in {"test", "body"} => hist.query = [pos |-> x, gamma |-> gamma])
    /\ [](pc \in {"test", "body"} =>
              gamma = QMul(param.gamma, QPow(param.gammadec, j)))
    /\ [][(x' # x \/ gamma' # gamma) => pc' \notin {"test", "body"} \/
              hist'.evals = hist.evals + 1]_vars
    /\ [][(pc = "stage" /\ pc' = "test") =>
              (hist'.evals = hist.evals + 1 /\ hist'.query = [pos |-> x', gamma |-> gamma'])]_vars

\* an update of a later stage is about to use a gradient evaluated with the
\* decayed barrier weight at a position that has moved
C27_Witness ==
    /\ pc = "body"
    /\ j >= 1
    /\ gamma # param.gamma
    /\ hist.query.gamma = gamma
    /\ hist.updates >= 1
    /\ hist.query.pos = x
    /\ direction # VZero

\* ---------------------------------------------------------------------
\* C28: the mini-batch counter of the loss oracle is 0 when the run starts,
\* advances by exactly one with every oracle evaluation and by nothing else,
\* and is not reset between stages: the n-th evaluation of the run, counted
\* from 0, uses mini-batch n mod (rows / BATCH).
C28_BatchCounterAdvancesByOne ==
    /\ [](hist.evals = 0 => info.iter = 0)
    /\ [](info.iter = Len(hist.batches))
    /\ [](\A n \in 0..(Len(hist.batches) - 1) :
              hist.batches[n + 1] = n % (Problem.rows \div BATCH))
    /\ [][info'.iter # info.iter =>
              /\ info'.iter = info.iter + 1
              /\ hist'.evals = hist.evals + 1]_vars
    /\ [][hist'.evals # hist.evals => info'.iter = info.iter + 1]_vars

\* in a later stage the counter has passed the number of mini-batches and
\* the selection has wrapped around to the first one
C28_Witness ==
    /\ j >= 1
    /\ pc = "test"
    /\ info.iter = NBatches + 2
    /\ hist.batches[NBatches + 1] = 0
    /\ hist.batches[NBatches + 2] = 1
    /\ hist.batches[NBatches] = NBatches - 1

\* ---------------------------------------------------------------------
\* the largest number of rows of a drawn training set
MaxRows == 8

\* the constructor of backpropagation_batch_t throws "size not matching"
\* unless the row count of idata is a multiple of BATCH
constructor_accepts(data) == data.idata_rows % BATCH = 0

\* training sets network_data_t{idata, tdata} by their row counts, with the
\* value of the mini-batch counter at the evaluation
BatchInputs ==
    [idata_rows : 0..MaxRows, tdata_rows : 0..MaxRows, iter : 0..(NBatches + 1)]

InitBatch ==
    /\ pc = "batch"
    /\ inp \in BatchInputs
    /\ out = <<>>
    /\ OptimizerAtRest

\* the constructor accepts the training set
Construct ==
    /\ pc = "batch"
    /\ constructor_accepts(inp)
    /\ pc' = "batch_constructed"
    /\ UNCHANGED <<inp, out, optimizer_vars>>

\* the constructor throws
ConstructThrows ==
    /\ pc = "batch"
    /\ ~constructor_accepts(inp)
    /\ pc' = "batch_rejected"
    /\ UNCHANGED <<inp, out, optimizer_vars>>

\* backpropagation_batch_t::run up to the selection of the rows of the
\* mini-batch from idata and tdata
BatchRun ==
    /\ pc = "batch_constructed"
    /\ inp.idata_rows \div BATCH # 0
    /\ LET ii == batch_index(inp.iter, inp.idata_rows)
       IN  out' = [modulus |-> inp.idata_rows \div BATCH, i |-> ii,
                   selected |-> batch_rows(ii), iter |-> inp.iter + 1]
    /\ pc' = "batch_selected"
    /\ UNCHANGED <<inp, optimizer_vars>>

\* the same with rows / BATCH = 0: the remainder of a division by zero is
\* undefined, the index is whatever the build produces
BatchRunUndefined ==
    /\ pc = "batch_constructed"
    /\ inp.idata_rows \div BATCH = 0
    /\ \E ii \in 0..1 :
          out' = [modulus |-> 0, i |-> ii, selected |-> batch_rows(ii),
                  iter |-> inp.iter + 1]
    /\ pc' = "batch_selected"
    /\ UNCHANGED <<inp, optimizer_vars>>

NextBatch == Construct \/ ConstructThrows \/ BatchRun \/ BatchRunUndefined

SpecBatch == InitBatch /\ [][NextBatch]_vars

\* C29: for every training set the constructor accepts, each evaluation is
\* well defined: the number of mini-batches used as the modulus is at least
\* 1 and all BATCH selected row indices lie inside the data set.
C29_EvaluationWellDefined ==
    pc = "batch_selected" =>
        /\ out.modulus >= 1
        /\ Cardinality(out.selected) = BATCH
        /\ \A r \in out.selected : r < inp.idata_rows /\ r < inp.tdata_rows

\* what holds: with at least one full mini-batch and targets for every input
\* row the selection stays inside the data set
C29_WellDefinedForNonEmptySets ==
    (pc = "batch_selected" /\ inp.idata_rows >= BATCH
                           /\ inp.tdata_rows >= inp.idata_rows) =>
        /\ out.modulus >= 1
        /\ out.i = inp.iter % out.modulus
        /\ \A r \in out.selected : r < inp.idata_rows /\ r < inp.tdata_rows

\* ---------------------------------------------------------------------
\* one position and one buffer handed to both engines: the topology (1,1,1)
EngineInputs == {c \in BarrierInputs : c.with_t}

InitEngines ==
    /\ pc = "engines"
    /\ inp \in EngineInputs
    /\ out = <<>>
    /\ OptimizerAtRest

\* barrierfunction_t::compute and barrierfunction_wot_t::compute on the same
\* lipschitz, W, T, gamma and buffer
Engines ==
    /\ pc = "engines"
    /\ out' = [with_t |-> barrier_compute(inp.lipschitz,
                              [W |-> inp.W, b |-> inp.b, t |-> inp.t],
                              inp.gradient, inp.gamma),
               wot |-> barrier_wot_compute(inp.lipschitz,
                              [W |-> inp.W, b |-> inp.b],
                              inp.gradient, inp.t, inp.gamma)]
    /\ pc' = "engines_done"
    /\ UNCHANGED <<inp, optimizer_vars>>

NextEngines == Engines

SpecEngines == InitEngines /\ [][NextEngines]_vars

\* C30: for identical lipschitz, W, T and gamma the engine without T and the
\* engine with T, as compute calls them, factor the same matrix and add the
\* same contribution to the weight gradient; they differ only in the T
\* gradient that the engine with T adds.
C30_EnginesAgreeOnWeights ==
    pc = "engines_done" =>
        /\ out.with_t.ok = out.wot.ok
        /\ out.with_t.L = out.wot.L
        /\ out.with_t.gradient.W = out.wot.gradient.W
        /\ out.with_t.gradient.b = out.wot.gradient.b
        /\ out.wot.gradient.t = inp.gradient.t

\* what holds: the engines share the elimination, but compute calls the one
\* with T with the stabilisation; with numeric_stability = false its
\* factorization is the one of the engine without T
C30_EnginesDifferByStabilisation ==
    pc = "engines_done" =>
        /\ out.wot.L = chol_t(FALSE, inp.lipschitz, [W |-> inp.W, t |-> inp.t])
        /\ out.with_t.L = chol_t(TRUE, inp.lipschitz, [W |-> inp.W, t |-> inp.t])
        /\ out.with_t.ok =>
              \A k \in 2..Len(out.with_t.L.D) :
                  SSq(out.with_t.L.D[k]) =
                      QAdd(QSub(IF k - 1 < Len(inp.W)
                                THEN QMul(QInt(2), inp.t[k - 1]) ELSE QOne,
                                SSq(out.with_t.L.L[k - 1])), ratio)
        /\ out.wot.gradient.t = inp.gradient.t
        /\ out.with_t.gradient.b = out.wot.gradient.b

====
